---- MODULE Spec2Model ----
(***************************************************************************)
(* Product filtering of TheRefactorShop: the flat implementation           *)
(* (Product, FilterCriterion, ProductFilter, ProductFilterBuilder,         *)
(* ProductService) and the layered one (Category, Price, Product entity,   *)
(* ProductFilter value object, InMemoryProductRepository,                  *)
(* ProductFilterService).                                                  *)
(*                                                                         *)
(* JavaScript values: an optional number, Price or boolean is a record     *)
(* [defined, value]; `undefined` is the record with defined = FALSE.       *)
(* Arrays that the code shares by reference live in `heap` and are named   *)
(* by their index; arrays the code copies are plain sequences.             *)
(* Prices are whole numbers of a currency unit.                            *)
(***************************************************************************)
EXTENDS Integers, Sequences, FiniteSets, TLC

VARIABLES
  heap,            \* array id -> contents of a string[] shared by reference
  builder,         \* the flat ProductFilterBuilder (categories is a heap id)
  filter,          \* the flat ProductFilter last constructed / built
  written,         \* history: last argument written per builder field (the
                   \* steps taken so far in the concurrency specification)
  matchedAtBuild,  \* history: products `filter` matched when it was made
  args,            \* arguments of the construction or of the last read (one
                   \* record per call in the concurrency specification)
  product,         \* the product a predicate is applied to
  pc,              \* position of the caller: the call that was made last (the
                   \* position of each call in the concurrency specification)
  result,          \* value returned by the last call that returns no array
  impl,            \* the implementation the caller uses: "flat", "layered", or
                   \* "rejecting" for a service over a failing repository
  voBuilder,       \* the layered ProductFilterBuilder
  voFilter,        \* the layered ProductFilter value object last constructed
  error,           \* message of the Error the last call threw or rejected
                   \* with, "" if none
  calls,           \* number of calls the caller has made
  products,        \* the products array of the repository / of ProductService
                   \* (its id in `lists` in the service specifications)
  returned,        \* the array returned by the last call, <<>> for a void call
                   \* (its id in `lists` in the service specifications)
  expected,        \* history: the stored products the last query's filter
                   \* matches (the store as constructed in the service
                   \* specifications)
  saved,           \* history: id -> the product last saved under it and not deleted since
  otherBuilder,    \* the caller's second flat builder and its history, if it holds one
  lists            \* the product arrays on the heap, by id (service specifications)

vars == <<heap, builder, filter, written, matchedAtBuild,
          args, product, pc, result, impl, voBuilder, voFilter, error, calls,
          products, returned, expected, saved,
              otherBuilder, lists>>

----------------------------------------------------------------------------
(* Bounds of the model *)

MaxPrice == 2
MaxLen == 2
MaxCalls == 4
MaxList == 3

Cats == {"food", "clothes"}
Prices == 0..MaxPrice
CatLists == UNION {[1..n -> Cats] : n \in 0..MaxLen}
ProductCatLists == {<<>>, <<"food">>, <<"clothes">>, <<"food", "clothes">>}

----------------------------------------------------------------------------
(* JavaScript values *)

undefined == [defined |-> FALSE, value |-> 0]
Num(n) == [defined |-> TRUE, value |-> n]
Bool(b) == [defined |-> TRUE, value |-> b]

OptPrices == {undefined} \cup {Num(n) : n \in Prices}
OptBools == {undefined, Bool(TRUE), Bool(FALSE)}

\* heap ids: the caller's own array (the `categories` argument of a direct
\* construction or of the last withCategories call) and the arrays the
\* builders allocate; each of two builders holds one array and at most one
\* array that a builder has dropped is still referenced (by the built filter)
callerArr == "caller"
BuilderArrs == {"b1", "b2", "b3"}
ArrIds == {callerArr} \cup BuilderArrs

\* Array.prototype.includes over a sequence; some(callback) and
\* every(callback) are written as \E and \A over the indices
Includes(xs, x) == \E i \in 1..Len(xs) : xs[i] = x

----------------------------------------------------------------------------
(* Flat Product *)

Product(id, price, categories, hasStock) ==
  [id |-> id, price |-> price, categories |-> categories, hasStock |-> hasStock]

Products ==
  {Product("1", x, cs, s) : x \in Prices, cs \in ProductCatLists, s \in BOOLEAN}

hasCategory(p, category) == Includes(p.categories, category)

\* faulty variant: bounds exclusive
hasPriceInRangeExclusive(p, minPrice, maxPrice) ==
  IF minPrice.defined /\ p.price <= minPrice.value THEN FALSE
  ELSE IF maxPrice.defined /\ p.price >= maxPrice.value THEN FALSE
  ELSE TRUE

hasPriceInRange(p, minPrice, maxPrice) ==
  IF minPrice.defined /\ p.price < minPrice.value THEN FALSE
  ELSE IF maxPrice.defined /\ p.price > maxPrice.value THEN FALSE
  ELSE TRUE

----------------------------------------------------------------------------
(* Flat filter criteria; a category criterion keeps the array it was given *)

CategoryFilterCriterion(categories) ==
  [kind |-> "category", categories |-> categories]
PriceFilterCriterion(minPrice, maxPrice) ==
  [kind |-> "price", minPrice |-> minPrice, maxPrice |-> maxPrice]
StockFilterCriterion(hasStock) ==
  [kind |-> "stock", hasStock |-> hasStock]

\* faulty variant: the product must have every listed category
CategoryCriterionMatchesEvery(c, p, h) ==
  IF Len(h[c.categories]) = 0 THEN TRUE
  ELSE \A i \in 1..Len(h[c.categories]) : hasCategory(p, h[c.categories][i])

CategoryCriterionMatches(c, p, h) ==
  IF Len(h[c.categories]) = 0 THEN TRUE
  ELSE \E i \in 1..Len(h[c.categories]) : hasCategory(p, h[c.categories][i])

PriceCriterionMatches(c, p) == hasPriceInRange(p, c.minPrice, c.maxPrice)

StockCriterionMatches(c, p) == p.hasStock = c.hasStock

CriterionMatches(c, p, h) ==
  CASE c.kind = "category" -> CategoryCriterionMatches(c, p, h)
    [] c.kind = "price" -> PriceCriterionMatches(c, p)
    [] c.kind = "stock" -> StockCriterionMatches(c, p)

----------------------------------------------------------------------------
(* Flat ProductFilter *)

NoFilter == [exists |-> FALSE, criteria |-> <<>>]

\* faulty variant: a category criterion is added even for an empty list
ProductFilterAlwaysCategory(categories, minPrice, maxPrice, hasStock, h) ==
  LET c1 == <<CategoryFilterCriterion(categories)>>
      c2 == IF minPrice.defined \/ maxPrice.defined
            THEN <<PriceFilterCriterion(minPrice, maxPrice)>> ELSE <<>>
      c3 == IF hasStock.defined
            THEN <<StockFilterCriterion(hasStock.value)>> ELSE <<>>
  IN [exists |-> TRUE, criteria |-> c1 \o c2 \o c3]

\* faulty variant: a bound of 0 and a flag of false count as not given
ProductFilterTruthy(categories, minPrice, maxPrice, hasStock, h) ==
  LET given(x) == x.defined /\ x.value # 0
      c1 == IF Len(h[categories]) > 0
            THEN <<CategoryFilterCriterion(categories)>> ELSE <<>>
      c2 == IF given(minPrice) \/ given(maxPrice)
            THEN <<PriceFilterCriterion(minPrice, maxPrice)>> ELSE <<>>
      c3 == IF hasStock.defined /\ hasStock.value
            THEN <<StockFilterCriterion(hasStock.value)>> ELSE <<>>
  IN [exists |-> TRUE, criteria |-> c1 \o c2 \o c3]

\* new ProductFilter(categories, minPrice, maxPrice, hasStock); `categories`
\* is the id of the caller's array, whose contents are h[categories]
ProductFilter(categories, minPrice, maxPrice, hasStock, h) ==
  LET c1 == IF Len(h[categories]) > 0
            THEN <<CategoryFilterCriterion(categories)>> ELSE <<>>
      c2 == IF minPrice.defined \/ maxPrice.defined
            THEN <<PriceFilterCriterion(minPrice, maxPrice)>> ELSE <<>>
      c3 == IF hasStock.defined
            THEN <<StockFilterCriterion(hasStock.value)>> ELSE <<>>
  IN [exists |-> TRUE, criteria |-> c1 \o c2 \o c3]

\* faulty variant: one matching criterion is enough
matchesSome(f, p, h) ==
  \E i \in 1..Len(f.criteria) : CriterionMatches(f.criteria[i], p, h)

matches(f, p, h) ==
  \A i \in 1..Len(f.criteria) : CriterionMatches(f.criteria[i], p, h)

isEmpty(f) == Len(f.criteria) = 0

Matched(f, h) == {p \in Products : matches(f, p, h)}

----------------------------------------------------------------------------
(* Layered value objects and Product entity.  A Category is [value], a     *)
(* Price is a defined number; arguments here are already-constructed       *)
(* value objects.                                                          *)

Category(value) == [value |-> value]
Price(value) == [defined |-> TRUE, value |-> value]

CategoryEquals(a, other) == a.value = other.value

greaterThan(a, other) == a.value > other.value
lessThan(a, other) == a.value < other.value

\* an object reference is truthy, undefined is falsy
Truthy(obj) == obj.defined

Categories(cs) == [i \in 1..Len(cs) |-> Category(cs[i])]

ProductEntity(id, price, categories, hasStock) ==
  [id |-> id, price |-> price, categories |-> categories, hasStock |-> hasStock]

\* the entity a caller constructs from the same data as a flat product
EntityOf(p) ==
  ProductEntity(p.id, Price(p.price), Categories(p.categories), p.hasStock)

\* the entity constructor rejects an empty category list
IsEntity(p) == Len(p.categories) > 0

belongsToCategory(p, category) ==
  \E i \in 1..Len(p.categories) : CategoryEquals(p.categories[i], category)

isInPriceRange(p, minPrice, maxPrice) ==
  IF Truthy(minPrice) /\ lessThan(p.price, minPrice) THEN FALSE
  ELSE IF Truthy(maxPrice) /\ greaterThan(p.price, maxPrice) THEN FALSE
  ELSE TRUE

----------------------------------------------------------------------------
(* Layered filter criteria (criteria/filter-criterion.interface)           *)

CategoryCriterionVO(categories) ==
  [kind |-> "category", categories |-> categories]
PriceCriterionVO(minPrice, maxPrice) ==
  [kind |-> "price", minPrice |-> minPrice, maxPrice |-> maxPrice]
StockCriterionVO(hasStock) ==
  [kind |-> "stock", hasStock |-> hasStock]

CriterionMatchesVO(c, p) ==
  CASE c.kind = "category" ->
         \/ Len(c.categories) = 0
         \/ \E i \in 1..Len(c.categories) : belongsToCategory(p, c.categories[i])
    [] c.kind = "price" -> isInPriceRange(p, c.minPrice, c.maxPrice)
    [] c.kind = "stock" -> p.hasStock = c.hasStock

----------------------------------------------------------------------------
(* Layered ProductFilter value object.  The filter of                      *)
(* domain/value-objects/product-filter.ts is this one without the stock    *)
(* flag and the criteria list (hasStock always undefined).                 *)

InvalidRange == "Min price cannot be greater than max price"

NoVOFilter ==
  [exists |-> FALSE, categories |-> <<>>, minPrice |-> undefined,
   maxPrice |-> undefined, hasStock |-> undefined, criteria |-> <<>>]

\* the guard of the constructor's throw
ThrowsInvalidRange(minPrice, maxPrice) ==
  Truthy(minPrice) /\ Truthy(maxPrice) /\ greaterThan(minPrice, maxPrice)

buildCriteria(categories, minPrice, maxPrice, hasStock) ==
  LET c1 == IF Len(categories) > 0
            THEN <<CategoryCriterionVO(categories)>> ELSE <<>>
      c2 == IF Truthy(minPrice) \/ Truthy(maxPrice)
            THEN <<PriceCriterionVO(minPrice, maxPrice)>> ELSE <<>>
      c3 == IF hasStock.defined
            THEN <<StockCriterionVO(hasStock.value)>> ELSE <<>>
  IN c1 \o c2 \o c3

\* new ProductFilter(categories, minPrice, maxPrice, hasStock): no filter
\* (exists = FALSE) when the constructor throws
ProductFilterVO(categories, minPrice, maxPrice, hasStock) ==
  IF ThrowsInvalidRange(minPrice, maxPrice) THEN NoVOFilter
  ELSE [exists |-> TRUE, categories |-> categories, minPrice |-> minPrice,
        maxPrice |-> maxPrice, hasStock |-> hasStock,
        criteria |-> buildCriteria(categories, minPrice, maxPrice, hasStock)]

\* faulty variant: the stock flag is not looked at
isEmptyVOIgnoresStock(f) ==
  /\ Len(f.categories) = 0
  /\ ~Truthy(f.minPrice)
  /\ ~Truthy(f.maxPrice)

isEmptyVO(f) ==
  /\ Len(f.categories) = 0
  /\ ~Truthy(f.minPrice)
  /\ ~Truthy(f.maxPrice)
  /\ ~f.hasStock.defined

matchesVO(f, p) ==
  \A i \in 1..Len(f.criteria) : CriterionMatchesVO(f.criteria[i], p)

hasCategoryFilter(f) == Len(f.categories) > 0
hasPriceFilter(f) == f.minPrice.defined \/ f.maxPrice.defined
hasStockFilter(f) == f.hasStock.defined

\* faulty variant: an empty category list is searched like any other
matchesCategoryNoShortcut(f, category) ==
  \E i \in 1..Len(f.categories) : CategoryEquals(f.categories[i], category)

matchesCategory(f, category) ==
  IF ~hasCategoryFilter(f) THEN TRUE
  ELSE \E i \in 1..Len(f.categories) : CategoryEquals(f.categories[i], category)

matchesPrice(f, price) ==
  IF ~hasPriceFilter(f) THEN TRUE
  ELSE IF Truthy(f.minPrice) /\ lessThan(price, f.minPrice) THEN FALSE
  ELSE IF Truthy(f.maxPrice) /\ greaterThan(price, f.maxPrice) THEN FALSE
  ELSE TRUE

MatchedVO(f) == {p \in Products : IsEntity(p) /\ matchesVO(f, EntityOf(p))}

----------------------------------------------------------------------------
(* Builders *)

\* category arrays a filter's criteria reference
Refs(f) ==
  {f.criteria[i].categories :
     i \in {j \in 1..Len(f.criteria) : f.criteria[j].kind = "category"}}

\* arrays no longer reachable from the caller, builder b, the caller's other
\* builder or filter f are freed
Collect(h, b, f) ==
  [a \in ArrIds |->
     IF \/ a = callerArr
        \/ a = b.categories
        \/ a = otherBuilder.builder.categories
        \/ a \in Refs(f)
     THEN h[a] ELSE <<>>]

\* new ProductFilterBuilder(): the field initialisers give the instance `id`
\* an empty category array of its own (heap id a) and leave the rest unset
ProductFilterBuilder(id, a) ==
  [id |-> id, categories |-> a, minPrice |-> undefined, maxPrice |-> undefined,
   hasStock |-> undefined]

\* ProductFilter.builder()
NewBuilder == ProductFilterBuilder("builder1", "b1")

\* faulty variant: the second builder is handed the first builder's array
SharedBuilder == ProductFilterBuilder("builder2", "b1")

\* a second call of ProductFilter.builder()
SecondBuilder == ProductFilterBuilder("builder2", "b2")

NewBuilderVO ==
  [id |-> "builder1", categories |-> <<>>, minPrice |-> undefined,
   maxPrice |-> undefined, hasStock |-> undefined]

\* `return this`: a reference to the builder the method was called on
this(b) == [defined |-> TRUE, value |-> b.id]

EmptyHeap == [a \in ArrIds |-> <<>>]

\* history of the calls made on the builder: the value each field was given
\* by the last call that wrote it; categories are the last withCategories
\* argument followed by the later withCategory arguments
NothingWritten ==
  [categories |-> <<>>, minPrice |-> undefined, maxPrice |-> undefined,
   hasStock |-> undefined]

\* ids of the product arrays on the heap: the array passed to the
\* constructor of a repository or service, the array the store holds, the
\* array returned by the last read, and one array per call in flight
ListIds == {"initial", "store", "result", "c1", "c2"}
NoLists == [l \in ListIds |-> <<>>]

\* the caller holds no second builder
NoOther == [builder |-> ProductFilterBuilder("none", "none"), written |-> NothingWritten]

Idle == UNCHANGED <<args, product, pc, products, returned, expected, saved,
                    otherBuilder, lists>>

\* one more call on the builder, by the caller of the given implementation
Call == pc = "builder" /\ calls < MaxCalls /\ calls' = calls + 1 /\ Idle
Flat == impl = "flat" /\ Call /\ UNCHANGED <<impl, voBuilder, voFilter, error>>
Layered == impl = "layered" /\ Call /\ UNCHANGED <<impl, heap, builder, filter>>

\* faulty variant: the builder keeps the caller's array instead of a copy
WithCategoriesAliased(categories) ==
  /\ Flat
  /\ written' = [written EXCEPT !.categories = categories]
  /\ LET b == [builder EXCEPT !.categories = callerArr]
     IN /\ builder' = b
        /\ heap' = Collect([heap EXCEPT ![callerArr] = categories], b, filter)
  /\ UNCHANGED <<filter, matchedAtBuild>>
  /\ result' = this(builder)

\* withCategories(categories): this.categories = [...categories]
WithCategories(categories) ==
  /\ Flat
  /\ written' = [written EXCEPT !.categories = categories]
  /\ LET a == CHOOSE x \in BuilderArrs :
                  x \notin Refs(filter) /\ x # otherBuilder.builder.categories
         b == [builder EXCEPT !.categories = a]
     IN /\ builder' = b
        /\ heap' = Collect([heap EXCEPT ![callerArr] = categories, ![a] = categories],
                           b, filter)
  /\ UNCHANGED <<filter, matchedAtBuild>>
  /\ result' = this(builder)

WithCategory(category) ==
  /\ Flat
  /\ written' = [written EXCEPT !.categories = Append(@, category)]
  /\ Len(heap[builder.categories]) < MaxLen
  /\ heap' = [heap EXCEPT ![builder.categories] = Append(@, category)]
  /\ UNCHANGED <<builder, filter, matchedAtBuild>>
  /\ result' = this(builder)

\* faulty variant: setting the minimum clears the maximum
WithMinPriceClearsMax(minPrice) ==
  /\ Flat
  /\ written' = [written EXCEPT !.minPrice = Num(minPrice)]
  /\ builder' = [builder EXCEPT !.minPrice = Num(minPrice), !.maxPrice = undefined]
  /\ UNCHANGED <<heap, filter, matchedAtBuild>>
  /\ result' = this(builder)

WithMinPrice(minPrice) ==
  /\ Flat
  /\ written' = [written EXCEPT !.minPrice = Num(minPrice)]
  /\ builder' = [builder EXCEPT !.minPrice = Num(minPrice)]
  /\ UNCHANGED <<heap, filter, matchedAtBuild>>
  /\ result' = this(builder)

\* faulty variant: the maximum is stored in the minPrice field
WithMaxPriceSetsMin(maxPrice) ==
  /\ Flat
  /\ written' = [written EXCEPT !.maxPrice = Num(maxPrice)]
  /\ builder' = [builder EXCEPT !.minPrice = Num(maxPrice)]
  /\ UNCHANGED <<heap, filter, matchedAtBuild>>
  /\ result' = this(builder)

WithMaxPrice(maxPrice) ==
  /\ Flat
  /\ written' = [written EXCEPT !.maxPrice = Num(maxPrice)]
  /\ builder' = [builder EXCEPT !.maxPrice = Num(maxPrice)]
  /\ UNCHANGED <<heap, filter, matchedAtBuild>>
  /\ result' = this(builder)

WithPriceRange(minPrice, maxPrice) ==
  /\ Flat
  /\ written' = [written EXCEPT !.minPrice = Num(minPrice), !.maxPrice = Num(maxPrice)]
  /\ builder' = [builder EXCEPT !.minPrice = Num(minPrice), !.maxPrice = Num(maxPrice)]
  /\ UNCHANGED <<heap, filter, matchedAtBuild>>
  /\ result' = this(builder)

WithStockFilter(hasStock) ==
  /\ Flat
  /\ written' = [written EXCEPT !.hasStock = Bool(hasStock)]
  /\ builder' = [builder EXCEPT !.hasStock = Bool(hasStock)]
  /\ UNCHANGED <<heap, filter, matchedAtBuild>>
  /\ result' = this(builder)

WithInStockOnly ==
  /\ Flat
  /\ written' = [written EXCEPT !.hasStock = Bool(TRUE)]
  /\ builder' = [builder EXCEPT !.hasStock = Bool(TRUE)]
  /\ UNCHANGED <<heap, filter, matchedAtBuild>>
  /\ result' = this(builder)

WithOutOfStockOnly ==
  /\ Flat
  /\ written' = [written EXCEPT !.hasStock = Bool(FALSE)]
  /\ builder' = [builder EXCEPT !.hasStock = Bool(FALSE)]
  /\ UNCHANGED <<heap, filter, matchedAtBuild>>
  /\ result' = this(builder)

\* build(): new ProductFilter(this.categories, ...) is handed the builder's
\* own array
Build ==
  /\ Flat
  /\ UNCHANGED <<builder, written, result>>
  /\ LET f == ProductFilter(builder.categories, builder.minPrice,
                            builder.maxPrice, builder.hasStock, heap)
         h == Collect(heap, builder, f)
     IN /\ filter' = f
        /\ heap' = h
        /\ matchedAtBuild' = Matched(f, h)

----------------------------------------------------------------------------
(* Layered ProductFilterBuilder: the category array is copied in *)

VOWithCategories(categories) ==
  /\ Layered
  /\ written' = [written EXCEPT !.categories = categories]
  /\ voBuilder' = [voBuilder EXCEPT !.categories = Categories(categories)]
  /\ UNCHANGED <<voFilter, error, matchedAtBuild>>
  /\ result' = this(voBuilder)

VOWithMinPrice(minPrice) ==
  /\ Layered
  /\ written' = [written EXCEPT !.minPrice = Num(minPrice)]
  /\ voBuilder' = [voBuilder EXCEPT !.minPrice = Price(minPrice)]
  /\ UNCHANGED <<voFilter, error, matchedAtBuild>>
  /\ result' = this(voBuilder)

VOWithMaxPrice(maxPrice) ==
  /\ Layered
  /\ written' = [written EXCEPT !.maxPrice = Num(maxPrice)]
  /\ voBuilder' = [voBuilder EXCEPT !.maxPrice = Price(maxPrice)]
  /\ UNCHANGED <<voFilter, error, matchedAtBuild>>
  /\ result' = this(voBuilder)

VOWithPriceRange(minPrice, maxPrice) ==
  /\ Layered
  /\ written' = [written EXCEPT !.minPrice = Num(minPrice), !.maxPrice = Num(maxPrice)]
  /\ voBuilder' = [voBuilder EXCEPT !.minPrice = Price(minPrice),
                                    !.maxPrice = Price(maxPrice)]
  /\ UNCHANGED <<voFilter, error, matchedAtBuild>>
  /\ result' = this(voBuilder)

VOWithStockFilter(hasStock) ==
  /\ Layered
  /\ written' = [written EXCEPT !.hasStock = Bool(hasStock)]
  /\ voBuilder' = [voBuilder EXCEPT !.hasStock = Bool(hasStock)]
  /\ UNCHANGED <<voFilter, error, matchedAtBuild>>
  /\ result' = this(voBuilder)

VOWithInStockOnly ==
  /\ Layered
  /\ written' = [written EXCEPT !.hasStock = Bool(TRUE)]
  /\ voBuilder' = [voBuilder EXCEPT !.hasStock = Bool(TRUE)]
  /\ UNCHANGED <<voFilter, error, matchedAtBuild>>
  /\ result' = this(voBuilder)

VOWithOutOfStockOnly ==
  /\ Layered
  /\ written' = [written EXCEPT !.hasStock = Bool(FALSE)]
  /\ voBuilder' = [voBuilder EXCEPT !.hasStock = Bool(FALSE)]
  /\ UNCHANGED <<voFilter, error, matchedAtBuild>>
  /\ result' = this(voBuilder)

\* build(): the constructor's Error propagates and no filter is returned
VOBuild ==
  /\ Layered
  /\ UNCHANGED <<voBuilder, written, result>>
  /\ LET f == ProductFilterVO(voBuilder.categories, voBuilder.minPrice,
                              voBuilder.maxPrice, voBuilder.hasStock)
     IN /\ voFilter' = f
        /\ error' = IF f.exists THEN "" ELSE InvalidRange
        /\ matchedAtBuild' = IF f.exists THEN MatchedVO(f) ELSE {}

----------------------------------------------------------------------------
(* The builder specification: a caller holding one builder of either       *)
(* implementation makes any sequence of with-calls and builds.             *)

NoProduct == Product("1", 0, <<>>, FALSE)

Ids == {"1", "2"}
BlankIds == {"", " "}

\* no product has been saved under any id
NothingSaved == [id \in Ids \cup BlankIds |-> undefined]
NoArgs == [minPrice |-> undefined, maxPrice |-> undefined, hasStock |-> undefined]

\* the prices handed to the builder: the lowest and the highest price, so
\* that bounds can be equal, ordered or inverted
BuilderPrices == {0, MaxPrice}

Init ==
  /\ impl \in {"flat", "layered"}
  /\ pc = "builder"
  /\ heap = EmptyHeap
  /\ builder = NewBuilder
  /\ voBuilder = NewBuilderVO
  /\ filter = NoFilter
  /\ voFilter = NoVOFilter
  /\ error = ""
  /\ written = NothingWritten
  /\ matchedAtBuild = {}
  /\ args = NoArgs
  /\ product = NoProduct
  /\ result = undefined
  /\ calls = 0
  /\ products = <<>>
  /\ returned = <<>>
  /\ expected = <<>>
  /\ saved = NothingSaved
  /\ otherBuilder = NoOther
  /\ lists = NoLists

Next ==
  \/ \E categories \in CatLists : WithCategories(categories)
  \/ \E category \in Cats : WithCategory(category)
  \/ \E minPrice \in BuilderPrices : WithMinPrice(minPrice)
  \/ \E maxPrice \in BuilderPrices : WithMaxPrice(maxPrice)
  \/ \E minPrice \in BuilderPrices, maxPrice \in BuilderPrices :
        WithPriceRange(minPrice, maxPrice)
  \/ \E hasStock \in BOOLEAN : WithStockFilter(hasStock)
  \/ WithInStockOnly
  \/ WithOutOfStockOnly
  \/ Build
  \/ \E categories \in CatLists : VOWithCategories(categories)
  \/ \E minPrice \in BuilderPrices : VOWithMinPrice(minPrice)
  \/ \E maxPrice \in BuilderPrices : VOWithMaxPrice(maxPrice)
  \/ \E minPrice \in BuilderPrices, maxPrice \in BuilderPrices :
        VOWithPriceRange(minPrice, maxPrice)
  \/ \E hasStock \in BOOLEAN : VOWithStockFilter(hasStock)
  \/ VOWithInStockOnly
  \/ VOWithOutOfStockOnly
  \/ VOBuild

Spec == Init /\ [][Next]_vars

\* the with-methods alone: the calls a caller makes on a builder before it
\* builds
NextMethods ==
  \/ \E categories \in CatLists : WithCategories(categories)
  \/ \E category \in Cats : WithCategory(category)
  \/ \E minPrice \in BuilderPrices : WithMinPrice(minPrice)
  \/ \E maxPrice \in BuilderPrices : WithMaxPrice(maxPrice)
  \/ \E minPrice \in BuilderPrices, maxPrice \in BuilderPrices :
        WithPriceRange(minPrice, maxPrice)
  \/ \E hasStock \in BOOLEAN : WithStockFilter(hasStock)
  \/ WithInStockOnly
  \/ WithOutOfStockOnly
  \/ \E categories \in CatLists : VOWithCategories(categories)
  \/ \E minPrice \in BuilderPrices : VOWithMinPrice(minPrice)
  \/ \E maxPrice \in BuilderPrices : VOWithMaxPrice(maxPrice)
  \/ \E minPrice \in BuilderPrices, maxPrice \in BuilderPrices :
        VOWithPriceRange(minPrice, maxPrice)
  \/ \E hasStock \in BOOLEAN : VOWithStockFilter(hasStock)
  \/ VOWithInStockOnly
  \/ VOWithOutOfStockOnly

SpecMethods == Init /\ [][NextMethods]_vars

----------------------------------------------------------------------------
(* The two-builder specification: a caller that obtained two flat builders *)
(* from two ProductFilter.builder() calls makes its calls on either one.   *)
(* `builder` is the builder the next call is made on, `otherBuilder` the   *)
(* one set aside, each with the history of the calls made on it.           *)

InitBuilders ==
  /\ impl = "flat"
  /\ pc = "builder"
  /\ heap = EmptyHeap
  /\ builder = NewBuilder
  /\ otherBuilder = [builder |-> SecondBuilder, written |-> NothingWritten]
  /\ lists = NoLists
  /\ voBuilder = NewBuilderVO
  /\ filter = NoFilter
  /\ voFilter = NoVOFilter
  /\ error = ""
  /\ written = NothingWritten
  /\ matchedAtBuild = {}
  /\ args = NoArgs
  /\ product = NoProduct
  /\ result = undefined
  /\ calls = 0
  /\ products = <<>>
  /\ returned = <<>>
  /\ expected = <<>>
  /\ saved = NothingSaved

\* the caller makes its next calls on the builder it had set aside
Switch ==
  /\ impl = "flat"
  /\ pc = "builder"
  /\ builder' = otherBuilder.builder
  /\ written' = otherBuilder.written
  /\ otherBuilder' = [builder |-> builder, written |-> written]
  /\ UNCHANGED <<heap, filter, matchedAtBuild, args, product, pc, result, impl,
                 voBuilder, voFilter, error, calls, products, returned,
                 expected, saved, lists>>

\* one method per kind of builder field, with one-element category lists
NextBuilders ==
  \/ \E category \in Cats : WithCategories(<<category>>)
  \/ \E category \in Cats : WithCategory(category)
  \/ \E minPrice \in BuilderPrices : WithMinPrice(minPrice)
  \/ \E maxPrice \in BuilderPrices : WithMaxPrice(maxPrice)
  \/ \E hasStock \in BOOLEAN : WithStockFilter(hasStock)
  \/ Build
  \/ Switch

SpecBuilders == InitBuilders /\ [][NextBuilders]_vars

----------------------------------------------------------------------------
(* The predicate specification: the caller draws constructor arguments     *)
(* (the category array is heap[callerArr]) and a product, then either       *)
(* constructs a filter and asks it one question, or applies one criterion  *)
(* or product predicate directly.  pc names the call that gave `result`.   *)

InitMatch ==
  /\ impl = "any"
  /\ pc = "start"
  /\ \E categories \in CatLists : heap = [EmptyHeap EXCEPT ![callerArr] = categories]
  /\ args \in [minPrice : OptPrices, maxPrice : OptPrices, hasStock : OptBools]
  /\ product \in Products
  /\ builder = NewBuilder
  /\ voBuilder = NewBuilderVO
  /\ filter = NoFilter
  /\ voFilter = NoVOFilter
  /\ error = ""
  /\ written = NothingWritten
  /\ matchedAtBuild = {}
  /\ result = undefined
  /\ calls = 0
  /\ products = <<>>
  /\ returned = <<>>
  /\ expected = <<>>
  /\ saved = NothingSaved
  /\ otherBuilder = NoOther
  /\ lists = NoLists

Fixed ==
  UNCHANGED <<heap, builder, voBuilder, written, matchedAtBuild, args, product,
              impl, calls, products, returned, expected, saved,
              otherBuilder, lists>>

Returns(call, value) ==
  /\ pc' = call
  /\ result' = Bool(value)
  /\ UNCHANGED <<filter, voFilter, error>>
  /\ Fixed

\* new ProductFilter(categories, minPrice, maxPrice, hasStock), flat
Construct ==
  /\ pc = "start"
  /\ filter' = ProductFilter(callerArr, args.minPrice, args.maxPrice, args.hasStock, heap)
  /\ pc' = "constructed"
  /\ UNCHANGED <<voFilter, error, result>>
  /\ Fixed

Matches ==
  /\ pc = "constructed"
  /\ Returns("matches", matches(filter, product, heap))

IsEmpty ==
  /\ pc = "constructed"
  /\ Returns("isEmpty", isEmpty(filter))

\* new CategoryFilterCriterion(categories).matches(product)
CategoryCriterion ==
  /\ pc = "start"
  /\ Returns("categoryCriterion",
             CategoryCriterionMatches(CategoryFilterCriterion(callerArr), product, heap))

\* new PriceFilterCriterion(minPrice, maxPrice).matches(product)
PriceCriterion ==
  /\ pc = "start"
  /\ Returns("priceCriterion",
             PriceCriterionMatches(PriceFilterCriterion(args.minPrice, args.maxPrice), product))

\* new StockFilterCriterion(hasStock).matches(product)
StockCriterion ==
  /\ pc = "start"
  /\ args.hasStock.defined
  /\ Returns("stockCriterion",
             StockCriterionMatches(StockFilterCriterion(args.hasStock.value), product))

HasPriceInRange ==
  /\ pc = "start"
  /\ Returns("hasPriceInRange", hasPriceInRange(product, args.minPrice, args.maxPrice))

IsInPriceRange ==
  /\ pc = "start"
  /\ IsEntity(product)
  /\ Returns("isInPriceRange", isInPriceRange(EntityOf(product), args.minPrice, args.maxPrice))

\* new ProductFilter(categories, minPrice, maxPrice, hasStock), layered
ConstructVO ==
  /\ pc = "start"
  /\ LET f == ProductFilterVO(Categories(heap[callerArr]), args.minPrice,
                              args.maxPrice, args.hasStock)
     IN /\ voFilter' = f
        /\ error' = IF f.exists THEN "" ELSE InvalidRange
        /\ pc' = IF f.exists THEN "voConstructed" ELSE "threw"
  /\ UNCHANGED <<filter, result>>
  /\ Fixed

MatchesVO ==
  /\ pc = "voConstructed"
  /\ IsEntity(product)
  /\ Returns("voMatches", matchesVO(voFilter, EntityOf(product)))

IsEmptyVO ==
  /\ pc = "voConstructed"
  /\ Returns("voIsEmpty", isEmptyVO(voFilter))

MatchesPrice ==
  /\ pc = "voConstructed"
  /\ Returns("matchesPrice", matchesPrice(voFilter, Price(product.price)))

\* filter.matchesCategory(category), category being the product's first one
MatchesCategory ==
  /\ pc = "voConstructed"
  /\ IsEntity(product)
  /\ Returns("matchesCategory",
             matchesCategory(voFilter, EntityOf(product).categories[1]))

HasCategoryFilter ==
  /\ pc = "voConstructed"
  /\ Returns("hasCategoryFilter", hasCategoryFilter(voFilter))

HasPriceFilter ==
  /\ pc = "voConstructed"
  /\ Returns("hasPriceFilter", hasPriceFilter(voFilter))

HasStockFilter ==
  /\ pc = "voConstructed"
  /\ Returns("hasStockFilter", hasStockFilter(voFilter))

NextMatch ==
  \/ Construct
  \/ Matches
  \/ IsEmpty
  \/ CategoryCriterion
  \/ PriceCriterion
  \/ StockCriterion
  \/ HasPriceInRange
  \/ IsInPriceRange
  \/ ConstructVO
  \/ MatchesVO
  \/ IsEmptyVO
  \/ MatchesPrice
  \/ MatchesCategory
  \/ HasCategoryFilter
  \/ HasPriceFilter
  \/ HasStockFilter

SpecMatch == InitMatch /\ [][NextMatch]_vars

----------------------------------------------------------------------------
(* InMemoryProductRepository and the services *)

\* String.prototype.trim on the ids used here
trim(id) == IF id \in BlankIds THEN "" ELSE id

\* products a caller can construct for the repository
RepoProducts ==
  {EntityOf(Product(id, x, cs, s)) :
     id \in Ids, x \in Prices, cs \in ProductCatLists \ {<<>>}, s \in BOOLEAN}

\* findIndex(p => p.id === id): 0 stands for -1 (indices are from 1 here)
findIndex(ps, id) ==
  IF \E i \in 1..Len(ps) : ps[i].id = id
  THEN CHOOSE i \in 1..Len(ps) : ps[i].id = id /\ \A j \in 1..(i - 1) : ps[j].id # id
  ELSE 0

\* the callback of this.products.filter in findByFilter
keeps(f, p) ==
  IF hasCategoryFilter(f)
     /\ ~\E i \in 1..Len(p.categories) : matchesCategory(f, p.categories[i])
  THEN FALSE
  ELSE IF hasPriceFilter(f) /\ ~matchesPrice(f, p.price) THEN FALSE
  ELSE TRUE

findByFilter(ps, f) == SelectSeq(ps, LAMBDA p : keeps(f, p))

findAll(ps) == ps

\* the elements of an array
Elements(xs) == {xs[i] : i \in 1..Len(xs)}

\* Array.prototype.sort(compare), stable as ECMAScript 2019 requires: each
\* element is inserted after the last element that does not compare greater
\* than it.  compare is the comparator as a function of two elements.
Insert(xs, x, compare) ==
  LET ks == {j \in 1..Len(xs) : compare[xs[j], x] <= 0}
      k == IF ks = {} THEN 0 ELSE CHOOSE j \in ks : \A i \in ks : i <= j
  IN SubSeq(xs, 1, k) \o <<x>> \o SubSeq(xs, k + 1, Len(xs))

ArraySort(xs, compare) ==
  LET sorted[n \in 0..Len(xs)] ==
        IF n = 0 THEN <<>> ELSE Insert(sorted[n - 1], xs[n], compare)
  IN sorted[Len(xs)]

\* faulty variant: no tie for two products of equal stock
compareStockNoTie(a, b) == IF a.hasStock THEN -1 ELSE 1

\* the comparator of ProductService.sortByStock
compareStock(a, b) ==
  IF a.hasStock = b.hasStock THEN 0
  ELSE IF a.hasStock THEN -1 ELSE 1

sortByStock(ps) ==
  ArraySort(ps, [a \in Elements(ps), b \in Elements(ps) |-> compareStock(a, b)])

\* faulty variant: no tie for two products of equal stock
compareStockVONoTie(a, b) == IF a.hasStock /\ ~b.hasStock THEN -1 ELSE 1

\* the comparator of ProductFilterService.sortByStock
compareStockVO(a, b) ==
  IF a.hasStock = b.hasStock THEN 0
  ELSE IF a.hasStock /\ ~b.hasStock THEN -1
  ELSE 1

sortByStockVO(ps) ==
  ArraySort(ps, [a \in Elements(ps), b \in Elements(ps) |-> compareStockVO(a, b)])

Others ==
  UNCHANGED <<heap, builder, filter, written, matchedAtBuild, args, product,
              result, impl, voBuilder, voFilter, error, calls, otherBuilder,
              lists>>

\* faulty variant: the product is always pushed
saveAlways(p) ==
  /\ impl = "layered"
  /\ products' = Append(products, p)
  /\ pc' = "save"
  /\ returned' = <<>> /\ expected' = <<>>
  /\ saved' = [saved EXCEPT ![p.id] = [defined |-> TRUE, value |-> p]]
  /\ Others

save(p) ==
  /\ impl = "layered"
  /\ LET index == findIndex(products, p.id)
     IN products' = IF index >= 1 THEN [products EXCEPT ![index] = p]
                    ELSE Append(products, p)
  /\ pc' = "save"
  /\ returned' = <<>> /\ expected' = <<>>
  /\ saved' = [saved EXCEPT ![p.id] = [defined |-> TRUE, value |-> p]]
  /\ Others

\* faulty variant: the filter keeps the products of the id instead
deleteOthers(id) ==
  /\ impl = "layered"
  /\ products' = IF id = "" \/ trim(id) = "" THEN products
                 ELSE SelectSeq(products, LAMBDA p : p.id = id)
  /\ pc' = "delete"
  /\ returned' = <<>> /\ expected' = <<>>
  /\ saved' = IF id = "" \/ trim(id) = "" THEN saved ELSE [saved EXCEPT ![id] = undefined]
  /\ Others

delete(id) ==
  /\ impl = "layered"
  /\ products' = IF id = "" \/ trim(id) = "" THEN products
                 ELSE SelectSeq(products, LAMBDA p : p.id # id)
  /\ pc' = "delete"
  /\ returned' = <<>> /\ expected' = <<>>
  /\ saved' = IF id = "" \/ trim(id) = "" THEN saved ELSE [saved EXCEPT ![id] = undefined]
  /\ Others

\* repository.findByFilter(new ProductFilter(categories, minPrice, maxPrice, hasStock))
FindByFilter(categories, minPrice, maxPrice, hasStock) ==
  LET f == ProductFilterVO(Categories(categories), minPrice, maxPrice, hasStock)
  IN /\ f.exists
     /\ returned' = findByFilter(products, f)
     /\ expected' = SelectSeq(products, LAMBDA p : matchesVO(f, p))
     /\ pc' = "findByFilter"
     /\ UNCHANGED products
  /\ UNCHANGED saved
     /\ Others

FindAll ==
  /\ returned' = findAll(products)
  /\ expected' = <<>>
  /\ pc' = "findAll"
  /\ UNCHANGED products
  /\ UNCHANGED saved
  /\ Others

InitRepo ==
  /\ impl = "layered"
  /\ pc = "repository"
  /\ products = <<>>
  /\ returned = <<>>
  /\ expected = <<>>
  /\ saved = NothingSaved
  /\ otherBuilder = NoOther
  /\ lists = NoLists
  /\ heap = EmptyHeap
  /\ builder = NewBuilder
  /\ voBuilder = NewBuilderVO
  /\ filter = NoFilter
  /\ voFilter = NoVOFilter
  /\ error = ""
  /\ written = NothingWritten
  /\ matchedAtBuild = {}
  /\ args = NoArgs
  /\ product = NoProduct
  /\ result = undefined
  /\ calls = 0

NextRepo ==
  \/ \E p \in RepoProducts : save(p)
  \/ \E id \in Ids \cup BlankIds : delete(id)
  \/ \E categories \in CatLists, minPrice \in OptPrices, maxPrice \in OptPrices,
        hasStock \in OptBools : FindByFilter(categories, minPrice, maxPrice, hasStock)
  \/ FindAll

SpecRepo == InitRepo /\ [][NextRepo]_vars

----------------------------------------------------------------------------
(* The store specification: a repository or a ProductService constructed   *)
(* over any initial list (ids may repeat in it), then any sequence of      *)
(* writes and reads by id.                                                 *)

Lists(S) == UNION {[1..n -> S] : n \in 0..MaxList}

\* the products of the store: two versions per id; a flat product can have
\* the empty id
StoreProducts ==
  {Product(id, x, <<"food">>, TRUE) : id \in Ids \cup {""}, x \in {0, MaxPrice}}
StoreEntities ==
  {EntityOf(p) : p \in {q \in StoreProducts : q.id \in Ids}}

\* find(product => product.id === id) || null
find(ps, id) ==
  IF findIndex(ps, id) >= 1
  THEN [defined |-> TRUE, value |-> ps[findIndex(ps, id)]]
  ELSE undefined

findById(ps, id) ==
  IF id = "" \/ trim(id) = "" THEN undefined ELSE find(ps, id)

FindById(id) ==
  /\ impl = "layered"
  /\ result' = findById(products, id)
  /\ args' = [id |-> id]
  /\ pc' = "findById"
  /\ returned' = <<>> /\ expected' = <<>>
  /\ UNCHANGED <<heap, builder, filter, written, matchedAtBuild, product, impl,
                 voBuilder, voFilter, error, calls, products, saved,
              otherBuilder, lists>>

\* faulty variant: the product is always pushed
addProductAlways(p) ==
  /\ impl = "flat"
  /\ products' = Append(products, p)
  /\ pc' = "addProduct"
  /\ returned' = <<>> /\ expected' = <<>>
  /\ UNCHANGED saved
  /\ Others

\* ProductService.addProduct
addProduct(p) ==
  /\ impl = "flat"
  /\ LET existingIndex == findIndex(products, p.id)
     IN products' = IF existingIndex >= 1 THEN [products EXCEPT ![existingIndex] = p]
                    ELSE Append(products, p)
  /\ pc' = "addProduct"
  /\ returned' = <<>> /\ expected' = <<>>
  /\ UNCHANGED saved
  /\ Others

\* ProductService.removeProduct
removeProduct(id) ==
  /\ impl = "flat"
  /\ products' = SelectSeq(products, LAMBDA p : p.id # id)
  /\ pc' = "removeProduct"
  /\ returned' = <<>> /\ expected' = <<>>
  /\ UNCHANGED saved
  /\ Others

\* new InMemoryProductRepository(initialProducts) / new ProductService(products)
InitStore ==
  /\ \/ impl = "flat" /\ products \in Lists(StoreProducts)
     \/ impl = "layered" /\ products \in Lists(StoreEntities)
  /\ saved = [id \in Ids \cup BlankIds |->
                IF impl = "layered" THEN find(products, id) ELSE undefined]
  /\ otherBuilder = NoOther
  /\ lists = NoLists
  /\ pc = "store"
  /\ returned = <<>>
  /\ expected = <<>>
  /\ heap = EmptyHeap
  /\ builder = NewBuilder
  /\ voBuilder = NewBuilderVO
  /\ filter = NoFilter
  /\ voFilter = NoVOFilter
  /\ error = ""
  /\ written = NothingWritten
  /\ matchedAtBuild = {}
  /\ args = NoArgs
  /\ product = NoProduct
  /\ result = undefined
  /\ calls = 0

NextStore ==
  \/ \E p \in StoreEntities : save(p)
  \/ \E id \in Ids \cup BlankIds : delete(id)
  \/ \E id \in Ids \cup BlankIds : FindById(id)
  \/ \E p \in StoreProducts : addProduct(p)
  \/ \E id \in Ids \cup BlankIds : removeProduct(id)

SpecStore == InitStore /\ [][NextStore]_vars

----------------------------------------------------------------------------
(* The ordering specification: a service over any stored list returns all  *)
(* products in stock-priority order.                                       *)

SortProducts ==
  {Product(id, x, <<"food">>, s) : id \in Ids, x \in Prices, s \in BOOLEAN}

InitSort ==
  /\ \/ impl = "flat" /\ products \in Lists(SortProducts)
     \/ impl = "layered" /\ products \in Lists({EntityOf(p) : p \in SortProducts})
  /\ pc = "service"
  /\ returned = <<>>
  /\ expected = <<>>
  /\ saved = NothingSaved
  /\ otherBuilder = NoOther
  /\ lists = NoLists
  /\ heap = EmptyHeap
  /\ builder = NewBuilder
  /\ voBuilder = NewBuilderVO
  /\ filter = NoFilter
  /\ voFilter = NoVOFilter
  /\ error = ""
  /\ written = NothingWritten
  /\ matchedAtBuild = {}
  /\ args = NoArgs
  /\ product = NoProduct
  /\ result = undefined
  /\ calls = 0

\* ProductService.getAllProducts(): sortByStock([...this.products])
getAllProducts ==
  /\ impl = "flat"
  /\ returned' = sortByStock(products)
  /\ pc' = "getAllProducts"
  /\ UNCHANGED <<products, expected>>
  /\ UNCHANGED saved
  /\ Others

\* ProductFilterService.getAllProducts(): sortByStock(await findAll())
getAllProductsVO ==
  /\ impl = "layered"
  /\ returned' = sortByStockVO(findAll(products))
  /\ pc' = "getAllProducts"
  /\ UNCHANGED <<products, expected>>
  /\ UNCHANGED saved
  /\ Others

\* new ProductService(ordered).getAllProducts(), `ordered` being the list the
\* first service returned
getAllProductsAgain ==
  /\ impl = "flat"
  /\ pc = "getAllProducts"
  /\ expected' = returned
  /\ returned' = sortByStock(returned)
  /\ pc' = "sortedAgain"
  /\ UNCHANGED products
  /\ UNCHANGED saved
  /\ Others

\* the same through a second repository and ProductFilterService
getAllProductsAgainVO ==
  /\ impl = "layered"
  /\ pc = "getAllProducts"
  /\ expected' = returned
  /\ returned' = sortByStockVO(findAll(returned))
  /\ pc' = "sortedAgain"
  /\ UNCHANGED products
  /\ UNCHANGED saved
  /\ Others

NextSort ==
  \/ getAllProducts
  \/ getAllProductsVO
  \/ getAllProductsAgain
  \/ getAllProductsAgainVO

SpecSort == InitSort /\ [][NextSort]_vars

----------------------------------------------------------------------------
(* The product specification: the caller draws constructor arguments (the  *)
(* category array is heap[callerArr]), constructs a Product of either      *)
(* class and then mutates the arrays it holds.  `expected` records the     *)
(* categories the product was constructed with.                            *)

IdInputs == {"", " ", "1"}
NameInputs == {"", " ", "n"}

EmptyId == "Product id cannot be empty"
EmptyName == "Product name cannot be empty"
NoCategories == "Product must have at least one category"

\* new Product(id, name, price, categories, hasStock), flat: parameter
\* properties, `categories` is the caller's array itself (a heap id)
NewProduct(id, name, price, categories, hasStock) ==
  [id |-> id, name |-> name, price |-> price, categories |-> categories,
   hasStock |-> hasStock]

\* the Error thrown by the entity constructor, "" if it returns
ProductEntityError(id, name, categories) ==
  IF id = "" \/ trim(id) = "" THEN EmptyId
  ELSE IF name = "" \/ trim(name) = "" THEN EmptyName
  ELSE IF Len(categories) = 0 THEN NoCategories
  ELSE ""

\* new Product(id, name, price, categories, hasStock), entity: the category
\* array is copied in
NewProductEntity(id, name, price, categories, hasStock) ==
  [id |-> id, name |-> name, price |-> price, categories |-> categories,
   hasStock |-> hasStock]

\* the categories a read of product.categories gives: the flat field is the
\* array itself, the entity getter returns a copy of its own array
categoriesOf(p, h) ==
  IF impl = "flat" THEN h[p.categories]
  ELSE [i \in 1..Len(p.categories) |-> p.categories[i].value]

\* hasCategory (flat) / belongsToCategory (entity) for each category
CategoriesHeld(p, h) ==
  IF impl = "flat"
  THEN {c \in Cats : hasCategory([p EXCEPT !.categories = h[p.categories]], c)}
  ELSE {c \in Cats : belongsToCategory(p, Category(c))}

InitProduct ==
  /\ impl \in {"flat", "layered"}
  /\ pc = "start"
  /\ \E categories \in CatLists : heap = [EmptyHeap EXCEPT ![callerArr] = categories]
  /\ args \in [id : IdInputs, name : NameInputs, price : Prices, hasStock : BOOLEAN]
  /\ product = NoProduct
  /\ builder = NewBuilder
  /\ voBuilder = NewBuilderVO
  /\ filter = NoFilter
  /\ voFilter = NoVOFilter
  /\ error = ""
  /\ written = NothingWritten
  /\ matchedAtBuild = {}
  /\ result = undefined
  /\ calls = 0
  /\ products = <<>>
  /\ returned = <<>>
  /\ expected = <<>>
  /\ saved = NothingSaved
  /\ otherBuilder = NoOther
  /\ lists = NoLists

FixedProduct ==
  UNCHANGED <<builder, voBuilder, filter, voFilter, written, matchedAtBuild,
              args, impl, result, products, returned, saved,
              otherBuilder, lists>>

ConstructProduct ==
  /\ impl = "flat"
  /\ pc = "start"
  /\ product' = NewProduct(args.id, args.name, args.price, callerArr, args.hasStock)
  /\ expected' = heap[callerArr]
  /\ pc' = "constructed"
  /\ UNCHANGED <<heap, error, calls>>
  /\ FixedProduct

ConstructProductEntity ==
  /\ impl = "layered"
  /\ pc = "start"
  /\ LET e == ProductEntityError(args.id, args.name, Categories(heap[callerArr]))
     IN /\ error' = e
        /\ pc' = IF e = "" THEN "constructed" ELSE "threw"
        /\ product' = IF e = ""
                      THEN NewProductEntity(args.id, args.name, Price(args.price),
                                            Categories(heap[callerArr]), args.hasStock)
                      ELSE product
        /\ expected' = IF e = "" THEN heap[callerArr] ELSE expected
  /\ UNCHANGED <<heap, calls>>
  /\ FixedProduct

\* the caller pushes onto the array it passed to the constructor
PushToArgument(category) ==
  /\ pc = "constructed"
  /\ calls < MaxCalls
  /\ calls' = calls + 1
  /\ heap' = [heap EXCEPT ![callerArr] = Append(@, category)]
  /\ UNCHANGED <<product, expected, pc, error>>
  /\ FixedProduct

\* product.categories.push(category): on the flat product the array read is
\* the field itself, on the entity it is a fresh copy that is then dropped
PushToCategories(category) ==
  /\ pc = "constructed"
  /\ calls < MaxCalls
  /\ calls' = calls + 1
  /\ heap' = IF impl = "flat"
             THEN [heap EXCEPT ![product.categories] = Append(@, category)]
             ELSE heap
  /\ UNCHANGED <<product, expected, pc, error>>
  /\ FixedProduct

NextProduct ==
  \/ ConstructProduct
  \/ ConstructProductEntity
  \/ \E category \in Cats : PushToArgument(category)
  \/ \E category \in Cats : PushToCategories(category)

SpecProduct == InitProduct /\ [][NextProduct]_vars

----------------------------------------------------------------------------
(* The value-object specification: the caller draws a raw JavaScript value *)
(* and hands it to the Category or Price constructor or to                 *)
(* Category.isValid, or draws three prices and compares them.              *)
(*                                                                         *)
(* A string is the sequence of its pieces, a piece being one blank or one  *)
(* word without blanks; no word below is the concatenation of others, so   *)
(* two strings are equal exactly when their sequences are.  A message is a *)
(* string in the same form; no message is <<>>.                            *)

MaxStr == 2

VALID_CATEGORIES ==
  <<"food", "clothes", "toiletries", "free-shipping", "new", "offer",
    "limited-edition">>

\* the words strings are made of: the vocabulary and one word outside it
Words == {VALID_CATEGORIES[i] : i \in 1..Len(VALID_CATEGORIES)} \cup {"books"}
Pieces == Words \cup {" "}
Strings == UNION {[1..n -> Pieces] : n \in 0..MaxStr}

JSValue(type, kind, n, chars) ==
  [type |-> type, kind |-> kind, n |-> n, chars |-> chars]
null == JSValue("null", "", 0, <<>>)
absent == JSValue("undefined", "", 0, <<>>)
Str(chars) == JSValue("string", "", 0, chars)
Number(n) == JSValue("number", "finite", n, <<>>)
NaN == JSValue("number", "NaN", 0, <<>>)
Infinity == JSValue("number", "Infinity", 0, <<>>)
MinusInfinity == JSValue("number", "-Infinity", 0, <<>>)

StringInputs == {null, absent} \cup {Str(chars) : chars \in Strings}
NumberInputs ==
  {null, absent, NaN, Infinity, MinusInfinity, Str(<<"new">>)}
    \cup {Number(n) : n \in (0 - MaxPrice)..MaxPrice}

\* !value for a string | null | undefined operand
Falsy(v) == v.type \in {"null", "undefined"} \/ (v.type = "string" /\ v.chars = <<>>)

\* String.prototype.trim: the blanks at both ends are removed
RECURSIVE TrimStart(_)
TrimStart(chars) ==
  IF chars # <<>> /\ Head(chars) = " " THEN TrimStart(Tail(chars)) ELSE chars

RECURSIVE TrimEnd(_)
TrimEnd(chars) ==
  IF chars # <<>> /\ chars[Len(chars)] = " "
  THEN TrimEnd(SubSeq(chars, 1, Len(chars) - 1)) ELSE chars

Trim(chars) == TrimEnd(TrimStart(chars))

\* faulty variant: the value is trimmed before it is looked up
isValidTrimmed(value) ==
  IF Falsy(value) \/ Trim(value.chars) = <<>> THEN FALSE
  ELSE Includes([i \in 1..Len(VALID_CATEGORIES) |-> <<VALID_CATEGORIES[i]>>],
                Trim(value.chars))

\* Category.isValid(value)
isValid(value) ==
  IF Falsy(value) \/ Trim(value.chars) = <<>> THEN FALSE
  ELSE Includes([i \in 1..Len(VALID_CATEGORIES) |-> <<VALID_CATEGORIES[i]>>], value.chars)

CategoryEmpty == <<"Category cannot be empty">>
InvalidCategory(value) == <<"Invalid category: ">> \o value.chars

\* the Error thrown by new Category(value), <<>> if it returns
CategoryError(value) ==
  IF Falsy(value) \/ Trim(value.chars) = <<>> THEN CategoryEmpty
  ELSE IF ~isValid(value) THEN InvalidCategory(value)
  ELSE <<>>

InvalidNumber == <<"Price must be a valid number">>
NegativePrice == <<"Price cannot be negative">>

isNaN(value) == value.kind = "NaN"
isFinite(value) == value.kind = "finite"

\* faulty variant: zero is refused as negative
PriceErrorZero(value) ==
  IF \/ value.type \in {"null", "undefined"}
     \/ value.type # "number"
     \/ isNaN(value)
     \/ ~isFinite(value)
  THEN InvalidNumber
  ELSE IF value.n <= 0 THEN NegativePrice
  ELSE <<>>

\* the Error thrown by new Price(value), <<>> if it returns
PriceError(value) ==
  IF \/ value.type \in {"null", "undefined"}
     \/ value.type # "number"
     \/ isNaN(value)
     \/ ~isFinite(value)
  THEN InvalidNumber
  ELSE IF value.n < 0 THEN NegativePrice
  ELSE <<>>

\* Price.equals(other), other a Price | null | undefined
PriceEquals(a, other) == IF ~Truthy(other) THEN FALSE ELSE a.value = other.value
\* faulty variant: strict
greaterThanOrEqualStrict(a, other) == a.value > other.value

greaterThanOrEqual(a, other) == a.value >= other.value
lessThanOrEqual(a, other) == a.value <= other.value

InitValue ==
  /\ \/ pc = "string" /\ args \in [v : StringInputs, a : {0}, b : {0}, c : {0}]
     \/ pc = "number" /\ args \in [v : NumberInputs, a : {0}, b : {0}, c : {0}]
     \/ pc = "prices" /\ args \in [v : {absent}, a : Prices, b : Prices, c : Prices]
  /\ impl = "layered"
  /\ error = <<>>
  /\ result = undefined
  /\ heap = EmptyHeap
  /\ product = NoProduct
  /\ builder = NewBuilder
  /\ voBuilder = NewBuilderVO
  /\ filter = NoFilter
  /\ voFilter = NoVOFilter
  /\ written = NothingWritten
  /\ matchedAtBuild = {}
  /\ calls = 0
  /\ products = <<>>
  /\ returned = <<>>
  /\ expected = <<>>
  /\ saved = NothingSaved
  /\ otherBuilder = NoOther
  /\ lists = NoLists

FixedValue ==
  UNCHANGED <<heap, product, builder, voBuilder, filter, voFilter, written,
              matchedAtBuild, args, impl, calls, products, returned, expected,
              saved,
              otherBuilder, lists>>

\* new Category(value): result is the category's value when it returns
ConstructCategory ==
  /\ pc = "string"
  /\ LET e == CategoryError(args.v)
     IN /\ error' = e
        /\ pc' = IF e = <<>> THEN "category" ELSE "categoryThrew"
        /\ result' = IF e = <<>> THEN [defined |-> TRUE, value |-> Category(args.v.chars).value]
                      ELSE result
  /\ FixedValue

IsValid ==
  /\ pc = "string"
  /\ result' = Bool(isValid(args.v))
  /\ pc' = "isValid"
  /\ UNCHANGED error
  /\ FixedValue

\* new Price(value): result is the price's value when it returns
ConstructPrice ==
  /\ pc = "number"
  /\ LET e == PriceError(args.v)
     IN /\ error' = e
        /\ pc' = IF e = <<>> THEN "price" ELSE "priceThrew"
        /\ result' = IF e = <<>> THEN [defined |-> TRUE, value |-> Price(args.v.n).value]
                      ELSE result
  /\ FixedValue

\* the five comparisons of a with b, and lessThan along a, b, c
ComparePrices ==
  /\ pc = "prices"
  /\ LET a == Price(args.a)
         b == Price(args.b)
         c == Price(args.c)
     IN result' = [lessThan |-> lessThan(a, b),
                   equals |-> PriceEquals(a, b),
                   greaterThan |-> greaterThan(a, b),
                   greaterThanOrEqual |-> greaterThanOrEqual(a, b),
                   lessThanOrEqual |-> lessThanOrEqual(a, b),
                   bLessThanC |-> lessThan(b, c),
                   aLessThanC |-> lessThan(a, c)]
  /\ pc' = "compared"
  /\ UNCHANGED error
  /\ FixedValue

NextValue ==
  \/ ConstructCategory
  \/ IsValid
  \/ ConstructPrice
  \/ ComparePrices

SpecValue == InitValue /\ [][NextValue]_vars

----------------------------------------------------------------------------
(* The service specification: a ProductService (impl = "flat") or a        *)
(* ProductFilterService over a repository, constructed from the caller's   *)
(* array lists["initial"].  The repository is the in-memory one            *)
(* (impl = "layered") or one whose every operation rejects with the error  *)
(* args.error (impl = "rejecting").  Here `products` is the id of the      *)
(* array the store holds, `returned` the id of the array the last call     *)
(* returned ("none" when it returned no array) and `expected` the contents *)
(* of the caller's array when the store was constructed.  The caller makes *)
(* reads through the service and pushes onto, or reverses, the arrays it   *)
(* holds.                                                                  *)

RepoErrors == {"Database error", "Connection lost"}

\* four products, the cheap ones of id 1 and the dear ones of id 2
ServiceProducts ==
  {Product(IF x = 0 THEN "1" ELSE "2", x, <<"food">>, s) :
     x \in {0, MaxPrice}, s \in BOOLEAN}

\* the product in the form the implementation in use stores
Stores(p) == IF impl = "flat" THEN p ELSE EntityOf(p)

\* the filters of the reads: no, a matching or a foreign category; no bound
\* or the highest minimum; no bound or the lowest maximum
ServiceCatLists == {<<>>, <<"food">>, <<"clothes">>}
ServiceMinPrices == {undefined, Num(MaxPrice)}
ServiceMaxPrices == {undefined, Num(0)}

\* a settled promise: resolved with a value or rejected with an error
Resolved(value) == [rejected |-> FALSE, error |-> "", value |-> value]
Rejected(e) == [rejected |-> TRUE, error |-> e, value |-> <<>>]

\* faulty variant: a read hands out the array the store holds
StoreArray == products

\* the array a read allocates: [...this.products], this.products.filter(...)
NewArray == "result"

\* what the service's repository answers where the in-memory one answers value
Repository(value) ==
  IF impl = "rejecting" THEN Rejected(args.error) ELSE Resolved(value)

\* faulty variant: a rejection is caught and an empty list returned
sortAwaitedCaught(found) ==
  IF found.rejected THEN Resolved(<<>>) ELSE Resolved(sortByStockVO(found.value))

\* const products = await <repository call>; return this.sortByStock(products)
sortAwaited(found) ==
  IF found.rejected THEN found ELSE Resolved(sortByStockVO(found.value))

\* return await this.productRepository.findById(id)
returnAwaited(found) == found

\* faulty variant: find instead of filter
filterProductsFirst(ps, f, h) ==
  LET found == SelectSeq(ps, LAMBDA p : matches(f, p, h))
  IN IF found = <<>> THEN <<>> ELSE <<found[1]>>

\* ProductService.filterProducts(filter)
filterProducts(ps, f, h) ==
  sortByStock(SelectSeq(ps, LAMBDA p : matches(f, p, h)))

NoRead ==
  [error |-> "", categories |-> <<>>, minPrice |-> undefined,
   maxPrice |-> undefined, hasStock |-> undefined, id |-> ""]

InitService ==
  /\ impl \in {"flat", "layered", "rejecting"}
  /\ \E ps \in UNION {[1..n -> ServiceProducts] : n \in 0..MaxLen} :
       LET stored == [i \in 1..Len(ps) |-> Stores(ps[i])]
       IN /\ impl = "rejecting" => ps = <<>>
          /\ lists = [NoLists EXCEPT !["initial"] = stored, !["store"] = stored]
          /\ expected = stored
  /\ products = "store"
  /\ returned = "none"
  /\ \E e \in RepoErrors \cup {""} :
       /\ (impl = "rejecting") = (e # "")
       /\ args = [NoRead EXCEPT !.error = e]
  /\ pc = "service"
  /\ error = ""
  /\ result = undefined
  /\ calls = 0
  /\ saved = NothingSaved
  /\ otherBuilder = NoOther
  /\ heap = EmptyHeap
  /\ builder = NewBuilder
  /\ voBuilder = NewBuilderVO
  /\ filter = NoFilter
  /\ voFilter = NoVOFilter
  /\ written = NothingWritten
  /\ matchedAtBuild = {}
  /\ product = NoProduct

\* one more call by the caller; no call here writes to the store object
ServiceCall ==
  /\ calls < MaxCalls
  /\ calls' = calls + 1
  /\ UNCHANGED <<heap, builder, filter, written, matchedAtBuild, product, impl,
                 voBuilder, voFilter, products, expected, saved, otherBuilder>>

\* the call settled: a rejection leaves the caller without a value, a list
\* is the array the repository allocated, a product is held in `result`
Settles(call, out, isList) ==
  /\ pc' = call
  /\ error' = out.error
  /\ returned' = IF out.rejected \/ ~isList THEN "none" ELSE NewArray
  /\ lists' = IF out.rejected \/ ~isList THEN lists
              ELSE [lists EXCEPT ![NewArray] = out.value]
  /\ result' = IF out.rejected \/ isList THEN undefined ELSE out.value

\* ProductFilterService.filterProducts(new ProductFilter(categories, minPrice, maxPrice))
FilterProductsVO(categories, minPrice, maxPrice) ==
  LET f == ProductFilterVO(Categories(categories), minPrice, maxPrice, undefined)
  IN /\ impl \in {"layered", "rejecting"}
     /\ f.exists
     /\ ServiceCall
     /\ args' = [NoRead EXCEPT !.error = args.error, !.categories = categories,
                               !.minPrice = minPrice, !.maxPrice = maxPrice]
     /\ Settles("filterProducts",
                sortAwaited(Repository(findByFilter(lists[products], f))), TRUE)

\* ProductFilterService.getAllProducts()
GetAllProductsVO ==
  /\ impl \in {"layered", "rejecting"}
  /\ ServiceCall
  /\ args' = [NoRead EXCEPT !.error = args.error]
  /\ Settles("getAllProducts", sortAwaited(Repository(findAll(lists[products]))), TRUE)

\* ProductFilterService.getProductById(id)
GetProductByIdVO(id) ==
  /\ impl \in {"layered", "rejecting"}
  /\ ServiceCall
  /\ args' = [NoRead EXCEPT !.error = args.error, !.id = id]
  /\ Settles("getProductById",
             returnAwaited(Repository(findById(lists[products], id))), FALSE)

\* ProductService.filterProducts(new ProductFilter(categories, minPrice, maxPrice, hasStock))
FilterProducts(categories, minPrice, maxPrice, hasStock) ==
  LET h == [heap EXCEPT ![callerArr] = categories]
      f == ProductFilter(callerArr, minPrice, maxPrice, hasStock, h)
  IN /\ impl = "flat"
     /\ ServiceCall
     /\ args' = [NoRead EXCEPT !.categories = categories, !.minPrice = minPrice,
                               !.maxPrice = maxPrice, !.hasStock = hasStock]
     /\ Settles("filterProducts", Resolved(filterProducts(lists[products], f, h)), TRUE)

\* the arrays the caller holds
CallerLists == {"initial"} \cup ({returned} \ {"none"})

\* a call by the caller on one of its arrays: no read is in progress, so
\* `args` and `result` are cleared
ArrayCall(call, list) ==
  /\ impl = "layered"
  /\ list \in CallerLists
  /\ ServiceCall
  /\ pc' = call
  /\ args' = NoRead
  /\ result' = undefined
  /\ UNCHANGED <<error, returned>>

\* list.push(p) by the caller
Push(list, p) ==
  /\ ArrayCall("push", list)
  /\ Len(lists[list]) <= MaxLen
  /\ lists' = [lists EXCEPT ![list] = Append(@, Stores(p))]

\* list.reverse() by the caller
Reverse(list) ==
  /\ ArrayCall("reverse", list)
  /\ Len(lists[list]) >= 2
  /\ lists' = [lists EXCEPT ![list] = [i \in 1..Len(@) |-> @[Len(@) + 1 - i]]]

NextService ==
  \/ \E categories \in ServiceCatLists, minPrice \in ServiceMinPrices,
        maxPrice \in ServiceMaxPrices :
        FilterProductsVO(categories, minPrice, maxPrice)
  \/ GetAllProductsVO
  \/ \E id \in Ids \cup BlankIds : GetProductByIdVO(id)
  \/ \E categories \in ServiceCatLists, minPrice \in ServiceMinPrices,
        maxPrice \in ServiceMaxPrices, hasStock \in OptBools :
        FilterProducts(categories, minPrice, maxPrice, hasStock)
  \/ \E list \in ListIds : Push(list, Product("2", MaxPrice, <<"food">>, TRUE))
  \/ \E list \in ListIds : Reverse(list)

SpecService == InitService /\ [][NextService]_vars

----------------------------------------------------------------------------
(* The concurrency specification: filterProducts calls in flight on one    *)
(* ProductFilterService over an in-memory repository that nothing writes   *)
(* to.  A call runs up to its await (the repository has filtered the store *)
(* into a new array by then) and is resumed later, when it sorts its array *)
(* in place and returns it; the steps of different calls interleave in     *)
(* every order.  Here pc, args and returned hold one value per call and    *)
(* `written` is the history of the steps taken.                            *)

InFlight == {"c1", "c2"}

\* faulty variant: findByFilter fills one array that all calls share
SharedArray(c) == "result"

\* this.products.filter(...) in findByFilter: the array of call c is its own
LocalArray(c) == c

InitConcurrent ==
  /\ impl = "layered"
  /\ \E ps \in UNION {[1..n -> ServiceProducts] : n \in 0..MaxLen} :
       LET stored == [i \in 1..Len(ps) |-> EntityOf(ps[i])]
       IN /\ lists = [NoLists EXCEPT !["store"] = stored]
          /\ expected = stored
  /\ products = "store"
  /\ pc = [c \in InFlight |-> "idle"]
  /\ args = [c \in InFlight |-> NoRead]
  /\ returned = [c \in InFlight |-> "none"]
  /\ written = <<>>
  /\ error = ""
  /\ result = undefined
  /\ calls = 0
  /\ saved = NothingSaved
  /\ otherBuilder = NoOther
  /\ heap = EmptyHeap
  /\ builder = NewBuilder
  /\ voBuilder = NewBuilderVO
  /\ filter = NoFilter
  /\ voFilter = NoVOFilter
  /\ matchedAtBuild = {}
  /\ product = NoProduct

\* filterProducts(filter) is called: it calls findByFilter, which filters
\* the store into a new array, and suspends at the await
CallFilterProducts(c, categories, minPrice, maxPrice) ==
  LET f == ProductFilterVO(Categories(categories), minPrice, maxPrice, undefined)
  IN /\ pc[c] = "idle"
     /\ f.exists
     /\ lists' = [lists EXCEPT ![LocalArray(c)] = findByFilter(lists[products], f)]
     /\ returned' = [returned EXCEPT ![c] = LocalArray(c)]
     /\ args' = [args EXCEPT ![c] = [NoRead EXCEPT !.categories = categories,
                                                  !.minPrice = minPrice,
                                                  !.maxPrice = maxPrice]]
     /\ pc' = [pc EXCEPT ![c] = "awaiting"]
     /\ written' = Append(written, <<"call", c>>)
     /\ UNCHANGED <<heap, builder, filter, matchedAtBuild, product, impl,
                    voBuilder, voFilter, products, expected, saved,
                    otherBuilder, error, result, calls>>

\* the awaited promise has resolved: return this.sortByStock(products)
ResumeFilterProducts(c) ==
  /\ pc[c] = "awaiting"
  /\ lists' = [lists EXCEPT ![returned[c]] =
                 sortAwaited(Resolved(lists[returned[c]])).value]
  /\ pc' = [pc EXCEPT ![c] = "returned"]
  /\ written' = Append(written, <<"resume", c>>)
  /\ UNCHANGED <<heap, builder, filter, matchedAtBuild, product, impl,
                 voBuilder, voFilter, products, expected, saved,
                 otherBuilder, error, result, calls, args, returned>>

NextConcurrent ==
  \/ \E c \in InFlight, categories \in ServiceCatLists,
        minPrice \in ServiceMinPrices, maxPrice \in ServiceMaxPrices :
        CallFilterProducts(c, categories, minPrice, maxPrice)
  \/ \E c \in InFlight : ResumeFilterProducts(c)

SpecConcurrent == InitConcurrent /\ [][NextConcurrent]_vars

----------------------------------------------------------------------------
(* What a claim calls a dimension accepting a product, stated on sets      *)

Range(xs) == {xs[i] : i \in 1..Len(xs)}

RangeInverted(minPrice, maxPrice) ==
  minPrice.defined /\ maxPrice.defined /\ minPrice.value > maxPrice.value

CategoryAccepts(categories, p) ==
  categories = <<>> \/ Range(categories) \cap Range(p.categories) # {}

PriceAccepts(minPrice, maxPrice, x) ==
  /\ (~minPrice.defined \/ x >= minPrice.value)
  /\ (~maxPrice.defined \/ x <= maxPrice.value)

StockAccepts(hasStock, p) == ~hasStock.defined \/ p.hasStock = hasStock.value

Accepts(categories, minPrice, maxPrice, hasStock, p) ==
  /\ CategoryAccepts(categories, p)
  /\ PriceAccepts(minPrice, maxPrice, p.price)
  /\ StockAccepts(hasStock, p)

\* the products matched by a filter constructed directly with the values w
DirectMatched(w) ==
  LET h == [heap EXCEPT ![callerArr] = w.categories]
  IN Matched(ProductFilter(callerArr, w.minPrice, w.maxPrice, w.hasStock, h), h)

DirectVO(w) ==
  ProductFilterVO(Categories(w.categories), w.minPrice, w.maxPrice, w.hasStock)

----------------------------------------------------------------------------
(* Claims checked under Spec *)

\* C3: build() returns no filter when the builder holds min > max
C3_BuildRejectsInvertedRange ==
  /\ filter.exists =>
       \A i \in 1..Len(filter.criteria) :
          filter.criteria[i].kind = "price" =>
            ~RangeInverted(filter.criteria[i].minPrice, filter.criteria[i].maxPrice)
  /\ voFilter.exists => ~RangeInverted(voFilter.minPrice, voFilter.maxPrice)

\* C4: a filter matches the same products for as long as it exists, whatever
\* is done later with the builder that produced it
C4_BuiltFilterNeverChanges ==
  /\ filter.exists => Matched(filter, heap) = matchedAtBuild
  /\ voFilter.exists => MatchedVO(voFilter) = matchedAtBuild

\* C6: the filter returned by build() matches the products matched by a
\* direct construction with the values last written to each builder field
C6_BuilderRoundTrip ==
  [][/\ Build => Matched(filter', heap') = DirectMatched(written)
     /\ VOBuild => /\ voFilter'.exists = DirectVO(written).exists
                   /\ voFilter'.exists => MatchedVO(voFilter') = MatchedVO(DirectVO(written))]_vars

C6_Witness ==
  /\ filter.exists \/ voFilter.exists
  /\ written.minPrice.defined /\ written.maxPrice.defined
  /\ written.hasStock.defined /\ written.categories # <<>>
  /\ matchedAtBuild # {}
  /\ filter.exists => matchedAtBuild = DirectMatched(written)

\* C8: a filter built with no constraint is empty and matches every product
C8_EmptyFilterMatchesAll ==
  [][/\ (Build /\ written = NothingWritten) =>
          isEmpty(filter') /\ Matched(filter', heap') = Products
     /\ (VOBuild /\ written = NothingWritten) =>
          /\ voFilter'.exists /\ isEmptyVO(voFilter')
          /\ MatchedVO(voFilter') = {p \in Products : IsEntity(p)}]_vars

\* the untouched builder has just built
C8_Witness ==
  /\ calls = 1
  /\ filter.exists \/ voFilter.exists
  /\ matchedAtBuild \in {Products, {p \in Products : IsEntity(p)}}

----------------------------------------------------------------------------
(* Claims checked under SpecMatch *)

OnlyCategories == ~args.minPrice.defined /\ ~args.maxPrice.defined /\ ~args.hasStock.defined

\* C1: matches(p) is true exactly when the category, price and stock
\* dimensions of the filter's arguments all accept p
C1_MatchesIffEveryDimensionAccepts ==
  pc \in {"matches", "voMatches"} =>
    result.value = Accepts(heap[callerArr], args.minPrice, args.maxPrice,
                           args.hasStock, product)

\* every dimension is constrained, the product passes category and price and
\* is rejected on stock alone
C1_Witness ==
  /\ pc = "matches"
  /\ heap[callerArr] # <<>> /\ args.minPrice.defined /\ args.maxPrice.defined
  /\ args.hasStock.defined
  /\ CategoryAccepts(heap[callerArr], product)
  /\ PriceAccepts(args.minPrice, args.maxPrice, product.price)
  /\ ~StockAccepts(args.hasStock, product)
  /\ result = Bool(FALSE)

\* C2: constructing with min > max throws the range error and yields no
\* filter, in both implementations; equal bounds construct
C2_NoFilterWithInvertedRange ==
  /\ filter.exists => ~RangeInverted(args.minPrice, args.maxPrice)
  /\ voFilter.exists => ~RangeInverted(args.minPrice, args.maxPrice)
  /\ pc = "threw" => RangeInverted(args.minPrice, args.maxPrice) /\ error = InvalidRange

\* C9: a category-only filter matches p exactly when p has one of the listed
\* categories; a category criterion over the empty list matches everything
C9_CategoryIsOr ==
  /\ (pc \in {"matches", "voMatches"} /\ OnlyCategories /\ heap[callerArr] # <<>>) =>
       result.value = (Range(heap[callerArr]) \cap Range(product.categories) # {})
  /\ pc = "categoryCriterion" =>
       result.value = (\/ heap[callerArr] = <<>>
                       \/ Range(heap[callerArr]) \cap Range(product.categories) # {})

\* two different categories are listed, the product has only one of them
C9_Witness ==
  /\ pc = "matches" /\ OnlyCategories
  /\ Cardinality(Range(heap[callerArr])) = 2
  /\ Cardinality(Range(product.categories)) = 1
  /\ result = Bool(TRUE)

\* C10: every price predicate accepts x exactly when min <= x <= max over
\* the bounds that are present, both inclusive
C10_PriceBoundsInclusive ==
  pc \in {"hasPriceInRange", "isInPriceRange", "priceCriterion", "matchesPrice"} =>
    result.value = PriceAccepts(args.minPrice, args.maxPrice, product.price)

\* min = max = the product's price, accepted
C10_Witness ==
  /\ pc \in {"hasPriceInRange", "matchesPrice"}
  /\ args.minPrice = Num(product.price) /\ args.maxPrice = Num(product.price)
  /\ result = Bool(TRUE)

----------------------------------------------------------------------------
(* Claims checked under SpecRepo and SpecSort *)

\* C5: findByFilter returns, in stored order, exactly the stored products
\* that the filter's matches accepts
C5_FindByFilterIsMatches ==
  pc = "findByFilter" => returned = expected

InStock(ps) == SelectSeq(ps, LAMBDA p : p.hasStock)
OutOfStock(ps) == SelectSeq(ps, LAMBDA p : ~p.hasStock)

\* C7: the ordered list is the in-stock products in their input order
\* followed by the out-of-stock products in their input order
C7_SortByStockStablePartition ==
  pc = "getAllProducts" => returned = InStock(products) \o OutOfStock(products)

\* an out-of-stock product came first and each group has its order to keep
C7_Witness ==
  /\ pc = "getAllProducts"
  /\ Len(products) = MaxList
  /\ ~products[1].hasStock
  /\ Len(OutOfStock(products)) >= 2
  /\ InStock(products) # <<>>
  /\ returned # products

\* C11: ordering a list that a service has already ordered returns that list
\* unchanged
C11_SortByStockIdempotent ==
  pc = "sortedAgain" => returned = expected

\* the first ordering moved products, the second was given both groups
C11_Witness ==
  /\ pc = "sortedAgain"
  /\ expected # products
  /\ Len(InStock(expected)) >= 1 /\ Len(OutOfStock(expected)) >= 2
  /\ returned = expected

----------------------------------------------------------------------------
(* Claims checked under SpecProduct *)

Blank(str) == str = "" \/ trim(str) = ""

\* C12: a construction with an empty id, name or category list throws the
\* error of the first of them that is empty, so no such Product exists
C12_NoInvalidProduct ==
  /\ pc = "constructed" =>
       ~Blank(product.id) /\ ~Blank(product.name) /\ expected # <<>>
  /\ pc = "threw" =>
       error = IF Blank(args.id) THEN EmptyId
               ELSE IF Blank(args.name) THEN EmptyName
               ELSE NoCategories

\* C13: whatever the caller does to the array it passed or to an array read
\* from the product, the product keeps the categories it was constructed with
C13_ProductCategoriesNeverChange ==
  pc = "constructed" =>
    /\ categoriesOf(product, heap) = expected
    /\ CategoriesHeld(product, heap) = Range(expected)

----------------------------------------------------------------------------
(* Claims checked under SpecValue *)

Vocabulary == {<<VALID_CATEGORIES[i]>> : i \in 1..Len(VALID_CATEGORIES)}

AbsentOrBlank(v) ==
  v.type # "string" \/ \A i \in 1..Len(v.chars) : v.chars[i] = " "

\* C14: new Category(v) throws the empty error for an absent, empty or blank
\* v, the distinct invalid error for any other v outside the vocabulary, and
\* otherwise returns a category of value v; isValid(v) tells which v construct
C14_CategoryOutcome ==
  /\ pc \in {"category", "categoryThrew"} =>
       IF AbsentOrBlank(args.v)
       THEN pc = "categoryThrew" /\ error = CategoryEmpty
       ELSE IF args.v.chars \notin Vocabulary
       THEN pc = "categoryThrew" /\ error # CategoryEmpty
            /\ error = <<"Invalid category: ">> \o args.v.chars
       ELSE pc = "category" /\ result.value = args.v.chars
  /\ pc = "isValid" =>
       result = Bool(~AbsentOrBlank(args.v) /\ args.v.chars \in Vocabulary)

\* a vocabulary word with a blank before it is refused as invalid, not empty
C14_Witness ==
  /\ pc = "categoryThrew"
  /\ Len(args.v.chars) = 2 /\ args.v.chars[1] = " "
  /\ <<args.v.chars[2]>> \in Vocabulary
  /\ error = <<"Invalid category: ", " ", args.v.chars[2]>>

\* C15: new Price(v) returns a price of value v exactly for a finite number
\* v >= 0; it throws the valid-number error for null, undefined, NaN and the
\* infinities, and the distinct negative error for a finite v < 0
C15_PriceOutcome ==
  pc \in {"price", "priceThrew"} =>
    IF args.v.type = "number" /\ args.v.kind = "finite" /\ args.v.n >= 0
    THEN pc = "price" /\ result.value = args.v.n
    ELSE IF args.v.type = "number" /\ args.v.kind = "finite"
    THEN pc = "priceThrew" /\ error = NegativePrice /\ error # InvalidNumber
    ELSE pc = "priceThrew" /\ error = InvalidNumber

\* zero constructs
C15_Witness ==
  pc = "price" /\ args.v = Number(0) /\ result = Num(0)

\* C16: of lessThan, equals and greaterThan exactly one holds; the two
\* or-equal comparisons negate the opposite strict ones; lessThan is transitive
C16_PriceTotalOrder ==
  pc = "compared" =>
    /\ Cardinality({r \in {"lessThan", "equals", "greaterThan"} : result[r]}) = 1
    /\ result.greaterThanOrEqual = ~result.lessThan
    /\ result.lessThanOrEqual = ~result.greaterThan
    /\ (result.lessThan /\ result.bLessThanC) => result.aLessThanC

\* three prices in strictly increasing order
C16_Witness ==
  /\ pc = "compared"
  /\ result.lessThan /\ result.bLessThanC /\ result.aLessThanC
  /\ result.lessThanOrEqual /\ ~result.greaterThanOrEqual

----------------------------------------------------------------------------
(* Claims checked under SpecStore *)

Stored(id) == \E i \in 1..Len(products) : products[i].id = id

\* what the claim requires of saving p into the store
Upserted(p) ==
  IF Stored(p.id)
  THEN \E i \in 1..Len(products) :
          products[i].id = p.id /\ products' = [products EXCEPT ![i] = p]
  ELSE products' = Append(products, p)

\* C17: saving p replaces the stored product of p's id in place, or appends
\* p when no stored product has that id; nothing else in the store changes
C17_SaveIsUpsert ==
  [][/\ \A p \in StoreEntities : save(p) => Upserted(p)
     /\ \A p \in StoreProducts : addProduct(p) => Upserted(p)]_vars

\* the saved product took the place of the first stored product of its id
\* and the later product of the same id was left as it was
C17_Witness ==
  /\ pc = "save"
  /\ Len(products) = MaxList
  /\ \E i \in 1..Len(products) : \E j \in 1..Len(products) :
        /\ i < j
        /\ products[i].id = products[j].id
        /\ products[i] # products[j]
        /\ saved[products[i].id] = [defined |-> TRUE, value |-> products[i]]

\* what the claim requires of deleting by id
Deleted(id) ==
  IF id = "" \/ id = " " THEN products' = products
  ELSE products' = SelectSeq(products, LAMBDA p : p.id # id)

\* C18: deleting by id removes the stored products of that id and nothing
\* else; an id that is not stored, empty or blank leaves the store unchanged
C18_DeleteRemovesOnlyThatId ==
  [][\A id \in Ids \cup BlankIds :
       /\ delete(id) => Deleted(id)
       /\ removeProduct(id) => Deleted(id)]_vars

\* C19: findById(id) returns the product last saved under id and not deleted
\* since (initially the stored product of that id), null otherwise and for
\* an empty or blank id
C19_FindByIdReturnsLastSaved ==
  pc = "findById" =>
    result = IF args.id \in BlankIds THEN undefined ELSE saved[args.id]

\* a product saved over an initial one is found
C19_Witness ==
  /\ pc = "findById"
  /\ result.defined
  /\ Len(products) >= 2
  /\ result.value # products[1]

----------------------------------------------------------------------------
(* Claim checked under SpecMatch: the per-dimension predicates *)

\* C20: matchesCategory(c) is true exactly when the category list is empty
\* or holds c, matchesPrice(x) exactly when x is within the bounds present;
\* neither looks at the stock flag or at the other dimension
C20_DimensionPredicates ==
  /\ pc = "matchesCategory" =>
       result.value = (\/ heap[callerArr] = <<>>
                       \/ product.categories[1] \in Range(heap[callerArr]))
  /\ pc = "matchesPrice" =>
       result.value = ((~args.minPrice.defined \/ product.price >= args.minPrice.value)
                       /\ (~args.maxPrice.defined \/ product.price <= args.maxPrice.value))

\* no category constraint: the category is accepted although the filter's
\* price and stock constraints both reject the product
C20_Witness ==
  /\ pc = "matchesCategory"
  /\ heap[callerArr] = <<>>
  /\ args.hasStock.defined /\ ~StockAccepts(args.hasStock, product)
  /\ ~PriceAccepts(args.minPrice, args.maxPrice, product.price)
  /\ result = Bool(TRUE)

----------------------------------------------------------------------------
(* Claims checked under SpecMethods: what each builder method changes *)

\* the fields of flat builder b as values, its category array read in heap h
Fields(b, h) ==
  [categories |-> h[b.categories], minPrice |-> b.minPrice,
   maxPrice |-> b.maxPrice, hasStock |-> b.hasStock]

\* the call left the flat builder with the field values w and returned it
FlatCall(w) ==
  /\ Fields(builder', heap') = w
  /\ builder'.id = builder.id
  /\ result' = this(builder)

\* the call left the layered builder as w and returned it
LayeredCall(w) == voBuilder' = w /\ result' = this(voBuilder)

\* C25: every builder method changes only the field(s) it is named for, to
\* its argument (or to true / false for the in-stock / out-of-stock setters),
\* and returns the builder it was called on
C25_BuilderMethodFrame ==
  [][LET w == Fields(builder, heap)
         v == voBuilder
     IN /\ \A cs \in CatLists :
             /\ WithCategories(cs) => FlatCall([w EXCEPT !.categories = cs])
             /\ VOWithCategories(cs) =>
                  LayeredCall([v EXCEPT !.categories = Categories(cs)])
        /\ \A c \in Cats :
             WithCategory(c) => FlatCall([w EXCEPT !.categories = Append(@, c)])
        /\ \A x \in BuilderPrices :
             /\ WithMinPrice(x) => FlatCall([w EXCEPT !.minPrice = Num(x)])
             /\ WithMaxPrice(x) => FlatCall([w EXCEPT !.maxPrice = Num(x)])
             /\ VOWithMinPrice(x) => LayeredCall([v EXCEPT !.minPrice = Price(x)])
             /\ VOWithMaxPrice(x) => LayeredCall([v EXCEPT !.maxPrice = Price(x)])
             /\ \A y \in BuilderPrices :
                  /\ WithPriceRange(x, y) =>
                       FlatCall([w EXCEPT !.minPrice = Num(x), !.maxPrice = Num(y)])
                  /\ VOWithPriceRange(x, y) =>
                       LayeredCall([v EXCEPT !.minPrice = Price(x), !.maxPrice = Price(y)])
        /\ \A b \in BOOLEAN :
             /\ WithStockFilter(b) => FlatCall([w EXCEPT !.hasStock = Bool(b)])
             /\ VOWithStockFilter(b) => LayeredCall([v EXCEPT !.hasStock = Bool(b)])
        /\ WithInStockOnly => FlatCall([w EXCEPT !.hasStock = Bool(TRUE)])
        /\ WithOutOfStockOnly => FlatCall([w EXCEPT !.hasStock = Bool(FALSE)])
        /\ VOWithInStockOnly => LayeredCall([v EXCEPT !.hasStock = Bool(TRUE)])
        /\ VOWithOutOfStockOnly => LayeredCall([v EXCEPT !.hasStock = Bool(FALSE)])]_vars

\* a builder whose four fields were all set by separate calls, the last of
\* which returned it
C25_Witness ==
  /\ calls = MaxCalls
  /\ result.defined /\ result.value \in {builder.id, voBuilder.id}
  /\ \/ /\ impl = "flat"
        /\ heap[builder.categories] # <<>>
        /\ builder.minPrice.defined /\ builder.maxPrice.defined
        /\ builder.hasStock.defined
     \/ /\ impl = "layered"
        /\ voBuilder.categories # <<>>
        /\ voBuilder.minPrice.defined /\ voBuilder.maxPrice.defined
        /\ voBuilder.hasStock.defined

\* C26: the flat builder's category list is the argument of the last
\* withCategories call (empty if there was none) followed by the arguments
\* of the later withCategory calls in call order, and withCategory leaves
\* the list the caller passed to withCategories as it was
C26_CategoryListIsLastSetThenAdded ==
  /\ [](impl = "flat" => heap[builder.categories] = written.categories)
  /\ [][\A c \in Cats : WithCategory(c) => heap'[callerArr] = heap[callerArr]]_vars

\* a category was added after a list was set: the builder's list is one
\* longer than the caller's
C26_Witness ==
  /\ impl = "flat"
  /\ heap[callerArr] # <<>>
  /\ heap[builder.categories] = Append(heap[callerArr], "food")

----------------------------------------------------------------------------
(* Claim checked under SpecBuilders *)

\* C29: a call on one builder leaves the field values of the caller's other
\* builder, and so the filter later built from it, as they were; build()
\* gives the filter of the builder's own call history, an empty filter for
\* a builder on which no with-method was called
C29_BuildersShareNoState ==
  [][/\ ~Switch =>
          Fields(otherBuilder'.builder, heap') = Fields(otherBuilder.builder, heap)
     /\ Build =>
          /\ Matched(filter', heap') = DirectMatched(written)
          /\ written = NothingWritten => isEmpty(filter')]_vars

\* the untouched builder has built an empty filter after the other builder
\* was given categories, a price bound and a stock flag
C29_Witness ==
  /\ written = NothingWritten
  /\ filter.exists /\ isEmpty(filter)
  /\ calls = MaxCalls
  /\ otherBuilder.written.categories # <<>>
  /\ otherBuilder.written.minPrice.defined
  /\ otherBuilder.written.hasStock.defined

----------------------------------------------------------------------------
(* Claims checked under SpecMatch: emptiness and the constrained dimensions *)

\* the dimensions the drawn constructor arguments constrain
Constrained ==
  {k \in {"category", "price", "stock"} :
     \/ k = "category" /\ heap[callerArr] # <<>>
     \/ k = "price" /\ (args.minPrice.defined \/ args.maxPrice.defined)
     \/ k = "stock" /\ args.hasStock.defined}

\* the criteria list holds one criterion per constrained dimension, no other
OnePerDimension(criteria) ==
  /\ Len(criteria) = Cardinality(Constrained)
  /\ {criteria[i].kind : i \in 1..Len(criteria)} = Constrained

\* C27: isEmpty() is true exactly when hasCategoryFilter(), hasPriceFilter()
\* and hasStockFilter() are all false, which is when the category list is
\* empty, both bounds are absent and the stock flag is unset; the criteria
\* list holds exactly one criterion per constrained dimension
C27_EmptyIffNoDimension ==
  /\ filter.exists => OnePerDimension(filter.criteria)
  /\ voFilter.exists => OnePerDimension(voFilter.criteria)
  /\ pc = "isEmpty" => result.value = (Constrained = {})
  /\ pc = "voIsEmpty" =>
       /\ result.value = (Constrained = {})
       /\ result.value = (/\ ~hasCategoryFilter(voFilter)
                          /\ ~hasPriceFilter(voFilter)
                          /\ ~hasStockFilter(voFilter))
  /\ pc = "hasCategoryFilter" => result.value = ("category" \in Constrained)
  /\ pc = "hasPriceFilter" => result.value = ("price" \in Constrained)
  /\ pc = "hasStockFilter" => result.value = ("stock" \in Constrained)

\* a filter whose only constraint is the stock flag is asked isEmpty()
C27_Witness ==
  /\ pc = "voIsEmpty"
  /\ Constrained = {"stock"}
  /\ Len(voFilter.criteria) = 1
  /\ result = Bool(FALSE)

\* C28: a bound of zero and a stock flag of false constrain: a filter with
\* maxPrice 0 is not empty and matches only products priced 0, one with
\* minPrice 0 is not empty, and one with stock flag false is not empty and,
\* with no other constraint, matches exactly the out-of-stock products
C28_ZeroAndFalseConstrain ==
  LET zero == \/ args.minPrice = Num(0)
              \/ args.maxPrice = Num(0)
              \/ args.hasStock = Bool(FALSE)
  IN /\ (pc \in {"isEmpty", "voIsEmpty"} /\ zero) => ~result.value
     /\ (pc \in {"matches", "voMatches"} /\ args.maxPrice = Num(0) /\ result.value) =>
          product.price = 0
     /\ (pc \in {"matches", "voMatches"} /\ Constrained = {"stock"}
            /\ args.hasStock = Bool(FALSE)) =>
          result.value = ~product.hasStock

\* the filter of maxPrice 0 and stock flag false matches a free product
\* that is out of stock
C28_Witness ==
  /\ pc \in {"matches", "voMatches"}
  /\ args.maxPrice = Num(0) /\ args.hasStock = Bool(FALSE)
  /\ product.price = 0 /\ ~product.hasStock
  /\ result = Bool(TRUE)

----------------------------------------------------------------------------
(* Claims checked under SpecService *)

ServiceReads == {"filterProducts", "getAllProducts", "getProductById"}

\* C21: when the repository operation behind a service call rejects, the
\* service call rejects with the same error and gives the caller no list
\* and no product
C21_RepositoryErrorPropagates ==
  (impl = "rejecting" /\ pc \in ServiceReads) =>
    /\ error = args.error
    /\ returned = "none"
    /\ ~result.defined
    /\ lists = NoLists

\* getAllProducts() has rejected with the repository's error
C21_Witness ==
  /\ impl = "rejecting"
  /\ pc = "getAllProducts"
  /\ error = "Connection lost"

\* the filter of the last filterProducts call of the ProductFilterService
ReadFilter ==
  ProductFilterVO(Categories(args.categories), args.minPrice, args.maxPrice, undefined)

\* C23: the reads leave the array the store holds as it was constructed, in
\* content and order; the array a read returns is neither the store's nor
\* the one passed to the constructor; and whatever the in-place sort or the
\* caller did to such arrays before, every read returns what it returns on
\* the store as constructed
C23_ReadsLeaveStoreAndReturnFreshLists ==
  impl = "layered" =>
    /\ lists[products] = expected
    /\ products # "initial"
    /\ returned \notin {products, "initial"}
    /\ pc = "getAllProducts" => lists[returned] = sortByStockVO(expected)
    /\ pc = "filterProducts" =>
         lists[returned] = sortByStockVO(findByFilter(expected, ReadFilter))
    /\ pc = "getProductById" => result = findById(expected, args.id)

\* after the caller changed both the array it passed to the constructor and
\* a returned array, getAllProducts() returns the stored products, sorted
\* into an order that differs from the stored one
C23_Witness ==
  /\ impl = "layered"
  /\ pc = "getAllProducts"
  /\ calls = MaxCalls
  /\ lists["initial"] # expected
  /\ lists[returned] # expected
  /\ Len(lists["initial"]) > Len(expected)

Count(xs, x) == Cardinality({i \in 1..Len(xs) : xs[i] = x})

\* the filter of the last ProductService.filterProducts call accepts p
ReadAccepts(p) ==
  Accepts(args.categories, args.minPrice, args.maxPrice, args.hasStock, p)

\* C24: ProductService.filterProducts(f) returns every stored product that
\* f matches exactly once and none that f does not match, so as many
\* products as the store holds matching ones: all of them under the empty
\* filter, none when nothing matches
C24_FilterProductsReturnsTheMatching ==
  (impl = "flat" /\ pc = "filterProducts") =>
    /\ \A p \in ServiceProducts :
         Count(lists[returned], p) = IF ReadAccepts(p) THEN Count(expected, p) ELSE 0
    /\ Len(lists[returned]) =
         Cardinality({i \in 1..Len(expected) : ReadAccepts(expected[i])})

\* a filter with a stock flag rejects the first of the stored products and
\* returns the only other one
C24_Witness ==
  /\ impl = "flat"
  /\ pc = "filterProducts"
  /\ args.hasStock.defined
  /\ Len(lists[returned]) = 1
  /\ Len(expected) = MaxLen
  /\ ~ReadAccepts(expected[1])

----------------------------------------------------------------------------
(* Claim checked under SpecStore: the ids stay pairwise distinct *)

DistinctIds(ps) ==
  \A i \in 1..Len(ps) : \A j \in 1..Len(ps) : ps[i].id = ps[j].id => i = j

\* C30: no save, addProduct, delete or removeProduct takes a store whose
\* ids are pairwise distinct to one where two products share an id; so a
\* store constructed with distinct ids keeps them distinct for ever
C30_IdsStayDistinct ==
  [][DistinctIds(products) => DistinctIds(products')]_vars

\* a store holding every id once, the dear product of id 2 first, right
\* after a save or an addProduct
C30_Witness ==
  /\ pc \in {"save", "addProduct"}
  /\ DistinctIds(products)
  /\ Len(products) = Cardinality(Ids)
  /\ products[1].id = "2"
  /\ products[1].price = MaxPrice
  /\ impl = "layered" => saved["1"] = [defined |-> TRUE, value |-> products[2]]

----------------------------------------------------------------------------
(* Claim checked under SpecConcurrent *)

\* the category list and price bounds a accept the stored product p
ServiceAccepts(a, p) ==
  /\ \/ a.categories = <<>>
     \/ \E i \in 1..Len(p.categories) : p.categories[i].value \in Range(a.categories)
  /\ ~a.minPrice.defined \/ p.price.value >= a.minPrice.value
  /\ ~a.maxPrice.defined \/ p.price.value <= a.maxPrice.value

\* what filterProducts returns for the arguments a when it runs alone
Alone(a) ==
  sortAwaited(Resolved(findByFilter(expected,
    ProductFilterVO(Categories(a.categories), a.minPrice, a.maxPrice, undefined)))).value

\* C22: under every interleaving of the calls in flight, each call returns
\* what it returns when run alone: the stored products its filter accepts,
\* those in stock first, in stored order within each group
C22_ConcurrentCallsAreIndependent ==
  \A c \in InFlight :
     pc[c] = "returned" =>
       LET accepted == SelectSeq(expected, LAMBDA p : ServiceAccepts(args[c], p))
       IN /\ lists[returned[c]] = Alone(args[c])
          /\ lists[returned[c]] = InStock(accepted) \o OutOfStock(accepted)

\* c2 was called and resumed while c1 was suspended; the two calls, with
\* different filters, returned different lists, c1 a reordered one
C22_Witness ==
  /\ written = <<<<"call", "c1">>, <<"call", "c2">>, <<"resume", "c2">>,
                 <<"resume", "c1">>>>
  /\ args["c1"] # args["c2"]
  /\ lists[returned["c1"]] # lists[returned["c2"]]
  /\ lists[returned["c1"]] # expected
  /\ Len(lists[returned["c1"]]) = Len(expected)

====
